---- MODULE Spec2Model ----
(***************************************************************************)
(* Model of the idle_champions_codes_crawler expiry resolver               *)
(* (src/src/parse.rs, TimeParser) and of its caller in the Discord         *)
(* handler (src/src/handler/discord.rs, parse).                            *)
(* and of the crawler itself (src/src/cache.rs, main of src/src/main.rs).  *)
(* The resolver is the specification Spec, the crawler is MainSpec.        *)
(*                                                                         *)
(* Text is a TLA+ string; a character is a string of length one.  The     *)
(* wall clock is the number of days since 1970-01-01 (every clock read of  *)
(* the code keeps only the UTC date, year or month).  Instants are         *)
(* seconds since the epoch, as in the code.  An Option<T> is a sequence of *)
(* length at most one: None is <<>>, Some(v) is <<v>>.                     *)
(***************************************************************************)
EXTENDS Integers, Sequences, FiniteSets, Bags, TLC

None == <<>>

Some(v) == <<v>>

IsSome(o) == o # <<>>

Unwrap(o) == o[1]

-----------------------------------------------------------------------------
(* Characters and strings                                                  *)

CharAt(s, i) == SubSeq(s, i, i)

DigitChars == "0123456789"

UpperChars == "ABCDEFGHIJKLMNOPQRSTUVWXYZ"

LowerChars == "abcdefghijklmnopqrstuvwxyz"

CharSet(s) == { CharAt(s, i) : i \in 1..Len(s) }

\* \d of the regex crate, on the model's ASCII alphabet
ClassDigit == CharSet(DigitChars)

\* \w of the regex crate, on the model's ASCII alphabet
ClassWord == CharSet(DigitChars) \cup CharSet(UpperChars) \cup CharSet(LowerChars) \cup {"_"}

\* [/-]
ClassSep == {"/", "-"}

IndexIn(alphabet, c) == CHOOSE i \in 1..Len(alphabet) : CharAt(alphabet, i) = c

\* char::to_lowercase on the ASCII alphabet
LowerChar(c) ==
    IF c \in CharSet(UpperChars) THEN CharAt(LowerChars, IndexIn(UpperChars, c)) ELSE c

\* to_lowercase with the normalization forgotten
to_lowercase_forgotten(s) == s

RECURSIVE to_lowercase(_)
\* str::to_lowercase
to_lowercase(s) ==
    IF Len(s) = 0 THEN "" ELSE LowerChar(CharAt(s, 1)) \o to_lowercase(SubSeq(s, 2, Len(s)))

\* str::contains(pat)
contains(s, pat) ==
    \E i \in 1..(Len(s) - Len(pat) + 1) : SubSeq(s, i, i + Len(pat) - 1) = pat

RECURSIVE replace_char(_, _)
\* str::replace(c, "")
replace_char(s, c) ==
    IF Len(s) = 0 THEN ""
    ELSE (IF CharAt(s, 1) = c THEN "" ELSE CharAt(s, 1)) \o replace_char(SubSeq(s, 2, Len(s)), c)

RECURSIVE split(_, _)
\* str::split(c), collected: the pieces between the occurrences of c
split(s, c) ==
    IF ~contains(s, c) THEN <<s>>
    ELSE LET i == CHOOSE j \in 1..Len(s) :
                      CharAt(s, j) = c /\ \A k \in 1..(j - 1) : CharAt(s, k) # c
         IN <<SubSeq(s, 1, i - 1)>> \o split(SubSeq(s, i + 1, Len(s)), c)

DigitVal(c) == IndexIn(DigitChars, c) - 1

RECURSIVE ParseInt(_)
\* str::parse::<u8>() / parse::<i32>() on a run of decimal digits
ParseInt(s) ==
    IF Len(s) = 0 THEN 0
    ELSE 10 * ParseInt(SubSeq(s, 1, Len(s) - 1)) + DigitVal(CharAt(s, Len(s)))

-----------------------------------------------------------------------------
(* Regular expressions: leftmost-first (backtracking-priority) matching at *)
(* a start, and the search of the regex crate for the start.  A pattern is *)
(* a sequence of nodes:                                                    *)
(*   Rep(cls, min, max, grp): cls{min,max}, greedy, captured as group grp  *)
(*                            (grp = 0: not captured);                     *)
(*   Opt(body):               (?:body)?, greedy.                           *)

Rep(cls, min, max, grp) == [k |-> "rep", cls |-> cls, min |-> min, max |-> max, grp |-> grp]

Opt(body) == [k |-> "opt", body |-> body]

NoCaptures == [g \in 1..3 |-> None]

RECURSIVE RunLen(_, _, _, _)
\* how many characters of s from pos on are in cls, at most max
RunLen(cls, s, pos, max) ==
    IF max = 0 \/ pos > Len(s) \/ CharAt(s, pos) \notin cls THEN 0
    ELSE 1 + RunLen(cls, s, pos + 1, max - 1)

RECURSIVE MatchAt(_, _, _, _)
RECURSIVE TryRep(_, _, _, _, _, _)
\* the first match, in priority order, of the node sequence at pos:
\* None, or Some of the captures
MatchAt(nodes, s, pos, caps) ==
    IF nodes = <<>> THEN Some(caps)
    ELSE LET n == Head(nodes)
             rest == Tail(nodes)
         IN IF n.k = "opt"
            THEN LET with == MatchAt(n.body \o rest, s, pos, caps)
                 IN IF IsSome(with) THEN with ELSE MatchAt(rest, s, pos, caps)
            ELSE TryRep(n, rest, s, pos, caps, RunLen(n.cls, s, pos, n.max))

\* greedy repetition: the longest run first, then shorter ones
TryRep(n, rest, s, pos, caps, len) ==
    IF len < n.min THEN None
    ELSE LET caps2 == IF n.grp = 0 THEN caps
                      ELSE [caps EXCEPT ![n.grp] = Some(SubSeq(s, pos, pos + len - 1))]
             r == MatchAt(rest, s, pos + len, caps2)
         IN IF IsSome(r) THEN r ELSE TryRep(n, rest, s, pos, caps, len - 1)

RECURSIVE CapturesFrom(_, _, _)
\* the scan of an unanchored search: the first start, from pos on, at which
\* the pattern matches
CapturesFrom(re, s, pos) ==
    IF pos > Len(s) THEN None
    ELSE LET r == MatchAt(re, s, pos, NoCaptures)
         IN IF IsSome(r) THEN r ELSE CapturesFrom(re, s, pos + 1)

RECURSIVE Ends(_, _, _)
\* the positions at which a match of the node sequence at pos can end
Ends(nodes, s, pos) ==
    IF nodes = <<>> THEN {pos}
    ELSE LET n == Head(nodes)
             rest == Tail(nodes)
         IN IF n.k = "opt"
            THEN Ends(n.body \o rest, s, pos) \cup Ends(rest, s, pos)
            ELSE UNION {Ends(rest, s, pos + len) :
                           len \in n.min..RunLen(n.cls, s, pos, n.max)}

RECURSIVE Reach(_, _, _)
\* how far a forward scan of the node sequence from pos gets: the position
\* of the first character no match can go through, Len(s) + 1 when there is
\* none
Reach(nodes, s, pos) ==
    IF nodes = <<>> THEN pos
    ELSE LET n == Head(nodes)
             rest == Tail(nodes)
             Max(S) == CHOOSE x \in S : \A z \in S : x >= z
         IN IF n.k = "opt"
            THEN Max({Reach(n.body \o rest, s, pos), Reach(rest, s, pos)})
            ELSE LET run == RunLen(n.cls, s, pos, n.max)
                 IN Max({pos + run} \cup {Reach(rest, s, pos + len) : len \in n.min..run})

RECURSIVE Tails(_)
\* the patterns of what can follow a cut in a match of the node sequence
Tails(nodes) ==
    IF nodes = <<>> THEN {<<>>}
    ELSE LET n == Head(nodes)
             rest == Tail(nodes)
         IN IF n.k = "opt"
            THEN Tails(n.body \o rest) \cup Tails(rest)
            ELSE {nodes}
                 \cup {<<Rep(n.cls, IF n.min > c THEN n.min - c ELSE 0, n.max - c, 0)>> \o rest :
                          c \in 1..n.max}
                 \cup Tails(rest)

\* s[from..p) is all of a match of the node sequence
Whole(nodes, s, from, p) == p \in Ends(nodes, s, from)

\* s[from..p) is the end of a match of the node sequence
Viable(nodes, s, from, p) == \E t \in Tails(nodes) : p \in Ends(t, s, from)

RECURSIVE InnerFrom(_, _)
\* the first node, from the i-th on, that is one required separator
InnerFrom(re, i) ==
    IF i > Len(re) THEN 0
    ELSE IF re[i].k = "rep" /\ re[i].cls = ClassSep /\ re[i].min = 1 /\ re[i].max = 1 THEN i
    ELSE InnerFrom(re, i + 1)

\* the required inner literal of a pattern: the index of its first top-level
\* [/-] after the first node, 0 when it has none
InnerLiteral(re) == InnerFrom(re, 2)

\* the search gives up and the leftmost-first search is run instead
Quadratic == [retry |-> TRUE]

Found(v) == [retry |-> FALSE, found |-> v]

RECURSIVE ReverseScan(_, _, _, _, _, _)
\* the backward scan of the part of the pattern before the literal at p,
\* about to read the character at `at`: a match is seen one character after
\* its start, the scan ends on the character after which nothing can match,
\* and it gives up when it would read before min_start or reaches the start
\* of the text with a match that starts later
ReverseScan(nodes, s, p, min_start, at, mat) ==
    LET flagged == Whole(nodes, s, at + 1, p)
        mat2 == IF flagged THEN Some(at + 1) ELSE mat
    IN IF ~flagged /\ ~Viable(nodes, s, at, p) THEN Found(mat)
       ELSE IF at = 1
            THEN LET mat3 == IF Whole(nodes, s, 1, p) THEN Some(1) ELSE mat2
                 IN IF IsSome(mat3) /\ Unwrap(mat3) > 1 THEN Quadratic ELSE Found(mat3)
       ELSE IF at - 1 < min_start THEN Quadratic
       ELSE ReverseScan(nodes, s, p, min_start, at - 1, mat2)

RECURSIVE ReverseInner(_, _, _, _, _, _)
\* the search of the regex crate for a pattern with a required inner
\* literal at node i, from position p on: the occurrences of the literal are
\* visited from the left; at an occurrence the part of the pattern before
\* the literal is scanned backwards for the earliest start, not before
\* min_match_start (the end of the last occurrence), then the whole pattern
\* is matched forwards from that start, and the first occurrence where both
\* succeed gives the match.  min_pre_start is where the last forward scan
\* stopped: an occurrence before it makes the search give up.
ReverseInner(re, i, s, p, min_match_start, min_pre_start) ==
    IF p > Len(s) THEN Found(None)
    ELSE IF CharAt(s, p) \notin re[i].cls
         THEN ReverseInner(re, i, s, p + 1, min_match_start, min_pre_start)
    ELSE IF p < min_pre_start THEN Quadratic
    ELSE LET rev == IF p = 1
                    THEN Found(IF Whole(SubSeq(re, 1, i - 1), s, 1, 1) THEN Some(1) ELSE None)
                    ELSE ReverseScan(SubSeq(re, 1, i - 1), s, p, min_match_start, p - 1, None)
         IN IF rev.retry THEN Quadratic
            ELSE IF rev.found = None
                 THEN ReverseInner(re, i, s, p + 1, p + 1, min_pre_start)
            ELSE LET r == MatchAt(re, s, Unwrap(rev.found), NoCaptures)
                 IN IF IsSome(r) THEN Found(r)
                    ELSE ReverseInner(re, i, s, p + 1, p + 1, Reach(re, s, Unwrap(rev.found)))

\* Regex::captures: the capture groups of the match the search finds, or
\* None.  Without an inner literal, and when the search from the literal
\* gives up, the match is the leftmost one.
captures(re, s) ==
    IF InnerLiteral(re) = 0 THEN CapturesFrom(re, s, 1)
    ELSE LET r == ReverseInner(re, InnerLiteral(re), s, 1, 1, 1)
         IN IF r.retry THEN CapturesFrom(re, s, 1) ELSE r.found

\* (?:(\d{4})[/-])?(\d{1,2})[/-](\d{1,2})
regex_yyyymmdd ==
    << Opt(<< Rep(ClassDigit, 4, 4, 1), Rep(ClassSep, 1, 1, 0) >>),
       Rep(ClassDigit, 1, 2, 2), Rep(ClassSep, 1, 1, 0), Rep(ClassDigit, 1, 2, 3) >>

\* (\d{1,2})[/-](\d{1,2})[/-]?(\d{1,4})?
regex_mmddyyyy ==
    << Rep(ClassDigit, 1, 2, 1), Rep(ClassSep, 1, 1, 0), Rep(ClassDigit, 1, 2, 2),
       Rep(ClassSep, 0, 1, 0), Opt(<< Rep(ClassDigit, 1, 4, 3) >>) >>

\* (\d{1,2})[/-](\d{1,2})[/-]?(\d{2})
regex_american_edge_case ==
    << Rep(ClassDigit, 1, 2, 1), Rep(ClassSep, 1, 1, 0), Rep(ClassDigit, 1, 2, 2),
       Rep(ClassSep, 0, 1, 0), Rep(ClassDigit, 2, 2, 3) >>

\* (\w{3,16}) (\d{1,2})(?:\w{2})?(?:,? (\d{4}))?
regex_engdate ==
    << Rep(ClassWord, 3, 16, 1), Rep({" "}, 1, 1, 0), Rep(ClassDigit, 1, 2, 2),
       Opt(<< Rep(ClassWord, 2, 2, 0) >>),
       Opt(<< Rep({","}, 0, 1, 0), Rep({" "}, 1, 1, 0), Rep(ClassDigit, 4, 4, 3) >>) >>

-----------------------------------------------------------------------------
(* The calendar of the time crate: proleptic Gregorian, UTC                *)

is_leap_year(y) == (y % 4 = 0) /\ ((y % 100 # 0) \/ (y % 400 = 0))

days_in_month(y, m) ==
    IF m \in {4, 6, 9, 11} THEN 30
    ELSE IF m = 2 THEN (IF is_leap_year(y) THEN 29 ELSE 28)
    ELSE 31

\* days from 1970-01-01 to the civil date (y, m, d), y >= 1
DaysFromCivil(y, m, d) ==
    LET yy == IF m <= 2 THEN y - 1 ELSE y
        era == yy \div 400
        yoe == yy - era * 400
        mp == IF m > 2 THEN m - 3 ELSE m + 9
        doy == (153 * mp + 2) \div 5 + d - 1
        doe == yoe * 365 + yoe \div 4 - yoe \div 100 + doy
    IN era * 146097 + doe - 719468

\* the civil date of a day number: [year, month, day]
CivilFromDays(z) ==
    LET zz == z + 719468
        era == zz \div 146097
        doe == zz - era * 146097
        yoe == (doe - doe \div 1460 + doe \div 36524 - doe \div 146096) \div 365
        doy == doe - (365 * yoe + yoe \div 4 - yoe \div 100)
        mp == (5 * doy + 2) \div 153
        dd == doy - (153 * mp + 2) \div 5 + 1
        mm == IF mp < 10 THEN mp + 3 ELSE mp - 9
    IN [year |-> yoe + era * 400 + (IF mm <= 2 THEN 1 ELSE 0), month |-> mm, day |-> dd]

\* OffsetDateTime::now_utc().year() at clock reading now
YearOf(now) == CivilFromDays(now).year

\* OffsetDateTime::now_utc().month() as u8 at clock reading now
MonthOf(now) == CivilFromDays(now).month

SecondsPerDay == 24 * 60 * 60

-----------------------------------------------------------------------------
(* TimeParser (src/src/parse.rs).  Every operator that reads the clock in  *)
(* the code takes the clock reading as its last parameter.                 *)

\* 32 days in seconds
SafetyMargin == 2764800

WeekDays == 7

\* next_week(): UTC midnight of today's date plus 7 days
next_week(now) == (now + WeekDays) * SecondsPerDay

\* month_from_str with the abbreviation of September misspelt
month_from_str_sept(name, now) ==
    LET l == to_lowercase(name)
    IN CASE l \in {"jan", "january"} -> 1
         [] l \in {"feb", "february"} -> 2
         [] l \in {"mar", "march"} -> 3
         [] l \in {"apr", "april"} -> 4
         [] l = "may" -> 5
         [] l \in {"jun", "june"} -> 6
         [] l \in {"jul", "july"} -> 7
         [] l \in {"aug", "august"} -> 8
         [] l \in {"sept", "september"} -> 9
         [] l \in {"oct", "october"} -> 10
         [] l \in {"nov", "november"} -> 11
         [] l \in {"dec", "december"} -> 12
         [] OTHER -> MonthOf(now)

month_from_str(name, now) ==
    LET l == to_lowercase(name)
    IN CASE l \in {"jan", "january"} -> 1
         [] l \in {"feb", "february"} -> 2
         [] l \in {"mar", "march"} -> 3
         [] l \in {"apr", "april"} -> 4
         [] l = "may" -> 5
         [] l \in {"jun", "june"} -> 6
         [] l \in {"jul", "july"} -> 7
         [] l \in {"aug", "august"} -> 8
         [] l \in {"sep", "september"} -> 9
         [] l \in {"oct", "october"} -> 10
         [] l \in {"nov", "november"} -> 11
         [] l \in {"dec", "december"} -> 12
         [] OTHER -> MonthOf(now)

predict_year(month, now) ==
    IF month \notin 1..12 THEN YearOf(now)
    ELSE IF month = 1 /\ MonthOf(now) = 12 THEN YearOf(now) + 1
    ELSE YearOf(now)

\* normalize_year with the override one year too eager
normalize_year_eager(year, now) ==
    LET y2 == IF year < 1000 THEN year + 2000 ELSE year
    IN IF YearOf(now) > y2 THEN YearOf(now) ELSE y2

normalize_year(year, now) ==
    LET y2 == IF year < 1000 THEN year + 2000 ELSE year
    IN IF YearOf(now) - 1 > y2 THEN YearOf(now) ELSE y2

\* the instant of UTC midnight of a valid date; None before the epoch
date_to_unix(y, m, d) ==
    LET t == DaysFromCivil(y, m, d) * SecondsPerDay
    IN IF t < 0 THEN None ELSE Some(t)

format_from_ymd(y, m, d) ==
    LET swap == m > 12 /\ d <= 12
        m2 == IF swap THEN d ELSE m
        d2 == IF swap THEN m ELSE d
    IN IF m2 \notin 1..12 THEN None
       ELSE IF d2 < 1 \/ d2 > days_in_month(y, m2) THEN None
       ELSE date_to_unix(y, m2, d2)

\* safety_net with the 32 days of margin forgotten
safety_net_no_margin(t, now) ==
    LET nw == next_week(now)
    IN IF t > nw THEN nw ELSE t

safety_net(t, now) ==
    LET nw == next_week(now)
    IN IF t > nw + SafetyMargin THEN nw ELSE t

is_american(normalized_ts) == contains(normalized_ts, "am") \/ contains(normalized_ts, "pm")

Candidate(shape, mtch, year_index, month_index, day_index, month_is_string) ==
    [shape |-> shape, mtch |-> Unwrap(mtch), year_index |-> year_index,
     month_index |-> month_index, day_index |-> day_index,
     month_is_string |-> month_is_string]

\* first_match with the named-month shape tried before the numeric ones
first_match_named_first(normalized_ts) ==
    LET american == IF is_american(normalized_ts)
                    THEN captures(regex_american_edge_case, normalized_ts) ELSE None
        yyyymmdd == captures(regex_yyyymmdd, normalized_ts)
        mmddyyyy == captures(regex_mmddyyyy, normalized_ts)
        engdate == captures(regex_engdate, normalized_ts)
    IN IF IsSome(engdate) THEN Some(Candidate("engdate", engdate, 3, 1, 2, TRUE))
       ELSE IF IsSome(american)
       THEN Some(Candidate("american_edge_case", american, 3, 1, 2, FALSE))
       ELSE IF IsSome(yyyymmdd) THEN Some(Candidate("yyyymmdd", yyyymmdd, 1, 2, 3, FALSE))
       ELSE IF IsSome(mmddyyyy) THEN Some(Candidate("mmddyyyy", mmddyyyy, 3, 1, 2, FALSE))
       ELSE None

\* parse_user_expires_string, lines 47-71: the first shape that matches,
\* with the arguments its handle_captures call gets; None when none matches
first_match(normalized_ts) ==
    LET american == IF is_american(normalized_ts)
                    THEN captures(regex_american_edge_case, normalized_ts) ELSE None
        yyyymmdd == captures(regex_yyyymmdd, normalized_ts)
        mmddyyyy == captures(regex_mmddyyyy, normalized_ts)
        engdate == captures(regex_engdate, normalized_ts)
    IN IF IsSome(american)
       THEN Some(Candidate("american_edge_case", american, 3, 1, 2, FALSE))
       ELSE IF IsSome(yyyymmdd) THEN Some(Candidate("yyyymmdd", yyyymmdd, 1, 2, 3, FALSE))
       ELSE IF IsSome(mmddyyyy) THEN Some(Candidate("mmddyyyy", mmddyyyy, 3, 1, 2, FALSE))
       ELSE IF IsSome(engdate) THEN Some(Candidate("engdate", engdate, 3, 1, 2, TRUE))
       ELSE None

\* handle_captures, lines 90-93: the indices after the american swap
swapped(c, american) == american /\ ~c.month_is_string

month_index_of(c, american) == IF swapped(c, american) THEN c.day_index ELSE c.month_index

day_index_of(c, american) == IF swapped(c, american) THEN c.month_index ELSE c.day_index

\* handle_captures, lines 95-107: the month field, None when the group is absent
captured_month(c, american, now) ==
    LET g == c.mtch[month_index_of(c, american)]
    IN IF ~IsSome(g) THEN None
       ELSE IF c.month_is_string THEN Some(month_from_str(Unwrap(g), now))
       ELSE Some(ParseInt(Unwrap(g)))

\* handle_captures, lines 109-112: the day field, None when the group is absent
captured_day(c, american) ==
    LET g == c.mtch[day_index_of(c, american)]
    IN IF ~IsSome(g) THEN None ELSE Some(ParseInt(Unwrap(g)))

\* handle_captures, lines 114-120: the captured year, or the predicted one
captured_year(c, m, now) ==
    LET g == c.mtch[c.year_index]
    IN IF IsSome(g) THEN ParseInt(Unwrap(g)) ELSE predict_year(m, now)

\* handle_captures with every clock read at the same reading
handle_captures(c, american, now) ==
    LET mo == captured_month(c, american, now)
        dy == captured_day(c, american)
    IN IF ~IsSome(mo) \/ ~IsSome(dy) THEN None
       ELSE format_from_ymd(normalize_year(captured_year(c, Unwrap(mo), now), now),
                            Unwrap(mo), Unwrap(dy))

\* parse_user_expires_string with every clock read at the same reading
parse_user_expires_string(normalized_ts, now) ==
    IF contains(normalized_ts, "next week") THEN Some(next_week(now))
    ELSE LET c == first_match(normalized_ts)
         IN IF ~IsSome(c) THEN None
            ELSE handle_captures(Unwrap(c), is_american(normalized_ts), now)

\* TimeParser::parse with every clock read at the same reading
parse(ts, safety, now) ==
    IF Len(ts) = 0 THEN None
    ELSE LET r == parse_user_expires_string(to_lowercase(ts), now)
         IN IF safety /\ IsSome(r) THEN Some(safety_net(Unwrap(r), now)) ELSE r

validate_code(code) ==
    LET clen == Len(replace_char(code, "-"))
    IN clen = 16 \/ clen = 12

-----------------------------------------------------------------------------
(* handler/discord.rs, parse: the part before the expiry line is resolved  *)

Err(e) == [ok |-> FALSE, err |-> e]

Ok(v) == [ok |-> TRUE, val |-> v]

Last(seq) == seq[Len(seq)]

\* lines 132-145
creator_name_of(creator_url, creator_name_fallback) ==
    LET name == to_lowercase(Last(split(creator_url, "/")))
    IN IF contains(name, "?") THEN creator_name_fallback ELSE name

\* lines 112-122: the error the message is rejected with, or None
message_error(message) ==
    LET parts == split(message, "\n")
    IN IF Len(parts) < 3 THEN Some("Likely unrecoverable message format")
       ELSE IF ~validate_code(replace_char(parts[1], " ")) THEN Some("Invalid code length")
       ELSE None

\* line 149: the fifth line of the message, if there is one
expiry_line(message) ==
    LET parts == split(message, "\n")
    IN IF Len(parts) >= 5 THEN Some(parts[5]) ELSE None

\* line 153: the fallback when the expiry line is unresolved
expiry_fallback(message_ts) == message_ts + (60 * 24 * 7)

\* lines 118-156: the Ok value, given expires_at
discord_parsed(message, expires_at) ==
    LET parts == split(message, "\n")
    IN Ok([code |-> replace_char(parts[1], " "),
           expires_at |-> expires_at,
           creator_name |-> creator_name_of(parts[3], parts[2]),
           creator_url |-> parts[3]])

-----------------------------------------------------------------------------
(* Inputs                                                                  *)

\* how many days the clock may advance in one run
MaxTicks == 1

\* the dates the clock starts at
ClockStarts == { DaysFromCivil(2026, 10, 30), DaysFromCivil(2026, 12, 31) }

RECURSIVE Str(_)
\* the decimal digits of n >= 0
Str(n) == IF n < 10 THEN CharAt(DigitChars, n + 1)
          ELSE Str(n \div 10) \o CharAt(DigitChars, (n % 10) + 1)

Fields == {1, 3, 4, 12, 15, 31, 32}

ShortYears == {24, 25, 26, 27}

LongYears == {2024, 2025, 2026, 2027, 2028}

Suffixes == {"", " 6AM PST.", " PM"}

\* <<name, number>> of every month name month_from_str recognizes
MonthNames ==
    { <<"Jan", 1>>, <<"January", 1>>, <<"Feb", 2>>, <<"February", 2>>,
      <<"Mar", 3>>, <<"March", 3>>, <<"Apr", 4>>, <<"April", 4>>, <<"May", 5>>,
      <<"Jun", 6>>, <<"June", 6>>, <<"Jul", 7>>, <<"July", 7>>,
      <<"Aug", 8>>, <<"August", 8>>, <<"Sep", 9>>, <<"September", 9>>,
      <<"Oct", 10>>, <<"October", 10>>, <<"Nov", 11>>, <<"November", 11>>,
      <<"Dec", 12>>, <<"December", 12>> }

RoundTripDays == 1..28

RoundTripYears == {2025, 2026, 2027, 2028}

\* "A-B" / "A/B"
BareText(a, sep, b, suffix) == "Expires " \o Str(a) \o sep \o Str(b) \o suffix

\* "A/B/YY" and "A/B/YYYY"
TrailingYearText(a, b, yr, suffix) ==
    "Expires " \o Str(a) \o "/" \o Str(b) \o "/" \o Str(yr) \o suffix

\* "YYYY-A-B"
YearFirstText(yr, a, b, suffix) ==
    "Expires " \o Str(yr) \o "-" \o Str(a) \o "-" \o Str(b) \o suffix

\* "<month-name> <day>, <year>"
RoundTripText(name, day, yr) == name \o " " \o Str(day) \o ", " \o Str(yr)

NumericTexts ==
    { BareText(a, sep, b, x) : a \in Fields, b \in Fields, sep \in ClassSep, x \in Suffixes }
    \cup { TrailingYearText(a, b, yr, x) :
             a \in Fields, b \in Fields, yr \in ShortYears \cup LongYears, x \in Suffixes }
    \cup { YearFirstText(yr, a, b, x) :
             yr \in LongYears, a \in Fields, b \in Fields, x \in Suffixes }

RoundTripTexts ==
    { RoundTripText(n[1], day, yr) : n \in MonthNames, day \in RoundTripDays, yr \in RoundTripYears }

OtherTexts ==
    { "", "idk", "next week", "Next Week", "Expires NEXT WEEK", "next week 1/15/2030 6AM PST.",
      "Jan 5 or next Week", "Expires Jan 26th", "Expires Jan 10, 2024", "Expires Feb 30th",
      "This code is active until January 18th @ 2 PM PT.",
      "This code expires on 1/11 at 1:30pm ET/10:30am PT.",
      "xyz 5", "Expires WeDontKnow", "Expires Mar 4, 2030", "Expires 2030-3-4",
      "Expires 2024-3-14 PM", "32/32 Jan 5, 2027", "1/32 Jan 5, 2027", "-1-x 2026-11-05" }

Texts == NumericTexts \cup RoundTripTexts \cup OtherTexts

Messages ==
    { "CODE-AAAA-BBBB\nTest Input\nhttps://www.twitch.tv/foo\n1x :bar:\nExpires WeDontKnow",
      "CODE-AAAA-BBBB\nTest Input\nhttps://www.twitch.tv/foo\n1x :bar:\nExpires Next Week",
      "CODE-AAAA-BBBB\nTest Input\nhttps://www.twitch.tv/foo\n1x :bar:\nExpires Jan 26th",
      "EARD-EEZH-ERKS-AAAA\nGina Darling - Idle Insights\nhttps://youtu.be/sNFoGtn-Qfw?si=j8PF5-tgMw6liltq\n1x :electrumchest:\nExpires 1/15/27 6AM PST.",
      "REPP PERE SEAN\nGaar slings some hash\nhttps://www.twitch.tv/gaarawarr\n1x :electrumchest:\nExpires 32/32",
      "CODE-AAAA-BBBB\nTest Input\nhttps://www.twitch.tv/foo\n1x :bar:\n",
      "CODE-AAAA-BBBB\nTest Input\nhttps://www.twitch.tv/foo\n1x :bar:",
      "CODE-AAAA-BBBB\nTest Input\nhttps://www.twitch.tv/foo",
      "CODE-AAAA-BBB\nTest Input\nhttps://www.twitch.tv/foo\n1x :bar:\nExpires Next Week",
      "hello\nworld" }

\* Message::timestamp of the messages, in seconds
MessageTimestamps == { 0, DaysFromCivil(2026, 10, 29) * SecondsPerDay + 3600 }

-----------------------------------------------------------------------------
(* State                                                                   *)

VARIABLES
    now,         \* the wall clock: days since the epoch
    ticks,       \* how many days the clock has advanced
    pc,          \* where the call in progress is
    caller,      \* who called TimeParser::parse: "test" or "discord"
    ts,          \* parse: the text
    safety,      \* parse: the safety_net flag
    t0,          \* the clock reading when parse was entered
    cand,        \* parse_user_expires_string: the matched shape, Some or None
    m,           \* handle_captures: m
    d,           \* handle_captures: d
    y,           \* handle_captures: y
    this_year,   \* normalize_year: this_year
    raw,         \* what parse_user_expires_string returned
    nextweek,    \* safety_net: nextweek
    result,      \* what parse returned
    message,     \* discord parse: message
    message_ts,  \* discord parse: message_ts
    parsed       \* discord parse: what it returned

VARIABLES
    systime,        \* SystemTime::now(), in seconds since the epoch
    runs,           \* how many runs of main have started
    cache_file,     \* cache.toml: the Cache it holds
    mpc,            \* where main is
    config,         \* main: config
    NOW,            \* cache.rs: NOW
    NEXT_TTL,       \* cache.rs: NEXT_TTL
    cache,          \* main: cache
    todo,           \* main: the entries of config.discord not yet visited
    awaiting,       \* main: the call whose .await has not returned, None when there is none
    requests,       \* main: requests
    queue,          \* main: the requests not yet visited by the submit loop
    responses,      \* main: responses
    returned,       \* the codes the successful discord::handle calls of this run returned
    sent,           \* the codes this run passed to insert_code
    skipped,        \* the codes this run skipped because Cache::has reported them
    inserted,       \* the codes this run inserted into the cache
    stored,         \* code -> the time-to-live its last insert of an earlier run gave it
    last_inserted   \* the code of the last Cache::insert, None once the cache was busted

frame == <<ts, safety, t0, cand, m, d, y, this_year, raw, nextweek, result>>

discord == <<message, message_ts, parsed>>

crawl == <<systime, runs, cache_file, mpc, config, NOW, NEXT_TTL, cache, todo, awaiting,
           requests, queue, responses, returned, sent, skipped, inserted, stored, last_inserted>>

vars == <<now, ticks, pc, caller, frame, discord, crawl>>

\* a map with no key (HashMap::new)
EmptyMap == [k \in {} |-> 0]

\* a Cache with no item
EmptyCache == [items |-> EmptyMap, others |-> EmptyBag]

\* a Config with no discord entry
NoConfig == [dry_run |-> FALSE, discord |-> EmptyMap]

\* main is not running: its locals do not exist
NoRun ==
    /\ config = NoConfig
    /\ NOW = 0
    /\ NEXT_TTL = 0
    /\ cache = EmptyCache
    /\ todo = {}
    /\ awaiting = None
    /\ requests = EmptyMap
    /\ queue = <<>>
    /\ responses = EmptyMap
    /\ returned = {}
    /\ sent = {}
    /\ skipped = {}
    /\ inserted = {}
    /\ last_inserted = None

NoFrame ==
    /\ ts = ""
    /\ safety = FALSE
    /\ t0 = 0
    /\ cand = None
    /\ m = 0
    /\ d = 0
    /\ y = 0
    /\ this_year = 0
    /\ raw = None
    /\ nextweek = 0
    /\ result = None

Init ==
    /\ now \in ClockStarts
    /\ ticks = 0
    /\ pc = "idle"
    /\ caller = "none"
    /\ NoFrame
    /\ message = ""
    /\ message_ts = 0
    /\ parsed = None
    /\ systime = 0
    /\ runs = 0
    /\ cache_file = EmptyCache
    /\ mpc = "stopped"
    /\ stored = EmptyMap
    /\ NoRun

\* the wall clock passes midnight
Tick ==
    /\ ticks < MaxTicks
    /\ now' = now + 1
    /\ ticks' = ticks + 1
    /\ UNCHANGED <<pc, caller, frame, discord>>
    /\ UNCHANGED crawl

\* the frame of a parse call that has matched shape c (None: no shape, or
\* not tried) and extracted the fields mo and dy
Entered(text, flag, relative, c, mo, dy) ==
    /\ ts' = text
    /\ safety' = flag
    /\ t0' = now
    /\ cand' = c
    /\ m' = IF IsSome(mo) /\ IsSome(dy) THEN Unwrap(mo) ELSE 0
    /\ d' = IF IsSome(mo) /\ IsSome(dy) THEN Unwrap(dy) ELSE 0
    /\ raw' = IF relative THEN Some(next_week(now)) ELSE None
    /\ result' = IF relative /\ ~flag THEN Some(next_week(now)) ELSE None
    /\ pc' = IF IsSome(mo) /\ IsSome(dy) THEN "predict_year"
             ELSE IF relative /\ flag THEN "safety_net"
             ELSE "done"
    /\ UNCHANGED <<y, this_year, nextweek>>

\* TimeParser::parse is entered with (text, flag): lines 24-37, then
\* parse_user_expires_string up to the first clock read of handle_captures
\* (lines 39-71, 90-112)
Enter(text, flag) ==
    \E normalized_ts \in {to_lowercase(text)} :
      \E relative \in {Len(text) > 0 /\ contains(normalized_ts, "next week")} :
        \E american \in {is_american(normalized_ts)} :
          \E c \in {IF Len(text) = 0 \/ relative THEN None ELSE first_match(normalized_ts)} :
            \E mo \in {IF IsSome(c) THEN captured_month(Unwrap(c), american, now) ELSE None} :
              \E dy \in {IF IsSome(c) THEN captured_day(Unwrap(c), american) ELSE None} :
                Entered(text, flag, relative, c, mo, dy)

\* a direct call of TimeParser::parse, as the tests of parse.rs make
Call ==
    /\ pc = "idle"
    /\ \E text \in Texts, flag \in BOOLEAN : Enter(text, flag)
    /\ caller' = "test"
    /\ UNCHANGED <<now, ticks, discord>>
    /\ UNCHANGED crawl

\* handle_captures, lines 114-120
PredictYear ==
    /\ pc = "predict_year"
    /\ y' = captured_year(Unwrap(cand), m, now)
    /\ pc' = "normalize_year"
    /\ UNCHANGED <<now, ticks, caller, ts, safety, t0, cand, m, d, this_year, raw,
                   nextweek, result, discord>>
    /\ UNCHANGED crawl

\* handle_captures, lines 122-124, and the return through
\* parse_user_expires_string to parse
NormalizeYear ==
    /\ pc = "normalize_year"
    /\ this_year' = YearOf(now)
    /\ y' = normalize_year(y, now)
    /\ raw' = format_from_ymd(y', m, d)
    /\ result' = IF safety THEN None ELSE raw'
    /\ pc' = IF safety /\ IsSome(raw') THEN "safety_net" ELSE "done"
    /\ UNCHANGED <<now, ticks, caller, ts, safety, t0, cand, m, d, nextweek, discord>>
    /\ UNCHANGED crawl

\* parse, line 33: safety_net
SafetyNet ==
    /\ pc = "safety_net"
    /\ nextweek' = next_week(now)
    /\ result' = Some(safety_net(Unwrap(raw), now))
    /\ pc' = "done"
    /\ UNCHANGED <<now, ticks, caller, ts, safety, t0, cand, m, d, y, this_year, raw, discord>>
    /\ UNCHANGED crawl

\* handler/discord.rs, parse, up to the call of TimeParser::parse
DiscordParse ==
    /\ pc = "idle"
    /\ \E msg \in Messages, mts \in MessageTimestamps :
         /\ message' = msg
         /\ message_ts' = mts
         /\ IF IsSome(message_error(msg))
            THEN /\ parsed' = Some(Err(Unwrap(message_error(msg))))
                 /\ pc' = "returned"
                 /\ UNCHANGED frame
            ELSE IF ~IsSome(expiry_line(msg))
            THEN /\ parsed' = Some(discord_parsed(msg, next_week(now)))
                 /\ pc' = "returned"
                 /\ UNCHANGED frame
            ELSE /\ parsed' = None
                 /\ Enter(Unwrap(expiry_line(msg)), TRUE)
    /\ caller' = "discord"
    /\ UNCHANGED <<now, ticks>>
    /\ UNCHANGED crawl

\* handler/discord.rs, parse, lines 151-156: TimeParser::parse has returned
DiscordResume ==
    /\ pc = "done"
    /\ caller = "discord"
    /\ parsed' = Some(discord_parsed(message,
                        IF IsSome(result) THEN Unwrap(result) ELSE expiry_fallback(message_ts)))
    /\ pc' = "returned"
    /\ UNCHANGED <<now, ticks, caller, frame, message, message_ts>>
    /\ UNCHANGED crawl

\* the call is over: its frame is dropped
Return ==
    /\ \/ pc = "done" /\ caller = "test"
       \/ pc = "returned"
    /\ pc' = "idle"
    /\ caller' = "none"
    /\ ts' = ""
    /\ safety' = FALSE
    /\ t0' = 0
    /\ cand' = None
    /\ m' = 0
    /\ d' = 0
    /\ y' = 0
    /\ this_year' = 0
    /\ raw' = None
    /\ nextweek' = 0
    /\ result' = None
    /\ message' = ""
    /\ message_ts' = 0
    /\ parsed' = None
    /\ UNCHANGED <<now, ticks>>
    /\ UNCHANGED crawl

Next ==
    \/ Tick
    \/ Call
    \/ PredictYear
    \/ NormalizeYear
    \/ SafetyNet
    \/ DiscordParse
    \/ DiscordResume
    \/ Return

Spec == Init /\ [][Next]_vars

-----------------------------------------------------------------------------
(* The crawler: src/src/cache.rs and main of src/src/main.rs               *)
(*                                                                         *)
(* A Cache is the map `items` from code to time-to-live.  The codes the    *)
(* handlers can return are its keys one by one; the entries under any      *)
(* other key are kept as the bag `others` of their time-to-lives, since    *)
(* no operation of the crawler looks such a key up: they only count        *)
(* towards items.len(), can be the one insert removes, and are busted by   *)
(* their time-to-live.                                                     *)
(*                                                                         *)
(* main is one task on a current_thread runtime: a step ends where main,   *)
(* or discord::handle called by it, waits for the network, and the next    *)
(* step is the return of that wait.                                        *)

\* cache.rs line 6
CACHE_LIMIT == 200

\* cache.rs line 24: the time-to-live of an entry, in seconds
TimeToLive == 60 * 60 * 24 * 7

\* HashMap::insert(k, v)
Put(f, k, v) == [x \in DOMAIN f \cup {k} |-> IF x = k THEN v ELSE f[x]]

\* HashMap::remove(k)
Remove(f, k) == [x \in DOMAIN f \ {k} |-> f[x]]

\* the elements of a Vec
Range(seq) == {seq[i] : i \in 1..Len(seq)}

\* self.items.len()
cache_len(c) == Cardinality(DOMAIN c.items) + BagCardinality(c.others)

\* Cache::has
has(c, code, n) ==
    IF code \in DOMAIN c.items THEN n > c.items[code] ELSE FALSE

\* self.items.remove(self.items.keys().next()): the first key of a HashMap
\* is any of its keys
remove_first_key(c) ==
    {[c EXCEPT !.items = Remove(c.items, k)] : k \in DOMAIN c.items}
        \cup {[c EXCEPT !.others = c.others (-) SetToBag({t})] : t \in BagToSet(c.others)}

\* Cache::insert without its limit
insert_unlimited(c, code, ttl) ==
    {[c EXCEPT !.items = Put(c.items, code, ttl)]}

\* Cache::insert: the caches it can leave
insert(c, code, ttl) ==
    {[e EXCEPT !.items = Put(e.items, code, ttl)] :
        e \in IF cache_len(c) >= CACHE_LIMIT THEN remove_first_key(c) ELSE {c}}

\* Cache::bust
bust(c, n) ==
    [items  |-> [k \in {x \in DOMAIN c.items : ~(n > c.items[x])} |-> c.items[k]],
     others |-> [t \in {x \in BagToSet(c.others) : ~(n > x)} |-> c.others[t]]]

\* discord::handle line 14: the configuration cannot be used
missing_config(cfg) == ~cfg.enabled \/ cfg.bot_token = "" \/ cfg.channel_id = 0

\* what get_messages answers (discord.rs lines 29-33) and the loop over the
\* messages makes of it (lines 35-76): an error, or the requests of the
\* messages that parse; a request is its code
MessagesOutcomes(lists) == {Err("Serenity")} \cup {Ok(l) : l \in lists}

\* `for (_, value) in requests { for request in value`: the requests in the
\* order the loops visit them (the map has at most the key "discord")
requests_in_order(r) ==
    IF "discord" \in DOMAIN r THEN r["discord"] ELSE <<>>

(* Inputs *)

\* the runs of main that are followed
MaxRuns == 3

\* the codes the channels hold
Codes == {"AAAA-BBBB-CCCC", "DDDD-EEEE-FFFF"}

\* what a channel gives a run
RequestLists ==
    {<<>>} \cup {<<c>> : c \in Codes}
        \cup {<<"AAAA-BBBB-CCCC", "DDDD-EEEE-FFFF">>, <<"AAAA-BBBB-CCCC", "AAAA-BBBB-CCCC">>}

\* a [discord.<name>] section of the configuration
DiscordConfigs ==
    {[enabled |-> TRUE,  acknowledge |-> FALSE, bot_token |-> "token", channel_id |-> 7],
     [enabled |-> TRUE,  acknowledge |-> TRUE,  bot_token |-> "token", channel_id |-> 7],
     [enabled |-> FALSE, acknowledge |-> FALSE, bot_token |-> "token", channel_id |-> 7],
     [enabled |-> TRUE,  acknowledge |-> FALSE, bot_token |-> "",      channel_id |-> 7]}

DiscordNames == {"first", "second"}

Configs ==
    {[dry_run |-> dry, discord |-> ds] :
        dry \in BOOLEAN, ds \in [DiscordNames -> DiscordConfigs]}

\* what insert_code answers
InsertCodeOutcomes == {Ok(Some(1)), Ok(None), Err("client")}

\* the first run starts an hour into 2026-10-30
FirstRun == DaysFromCivil(2026, 10, 30) * SecondsPerDay + 60 * 60

\* the time between the start of two runs: an hour, or a second more than
\* the time-to-live
Gaps == {60 * 60, TimeToLive + 1}

\* cache.toml as the first run finds it: n entries under other keys, one
\* of them a day from its time-to-live and the others six days
Filled(n) ==
    [items  |-> EmptyMap,
     others |-> IF n = 0 THEN EmptyBag
                ELSE IF n = 1 THEN SetToBag({FirstRun + SecondsPerDay})
                ELSE SetToBag({FirstRun + SecondsPerDay})
                         (+) [t \in {FirstRun + 6 * SecondsPerDay} |-> n - 1]]

CacheFiles == {Filled(0), Filled(CACHE_LIMIT - 1), Filled(CACHE_LIMIT)}

parser == <<now, ticks, pc, caller, frame, discord>>

MainInit ==
    /\ now = DaysFromCivil(2026, 10, 30)
    /\ ticks = 0
    /\ pc = "idle"
    /\ caller = "none"
    /\ NoFrame
    /\ message = ""
    /\ message_ts = 0
    /\ parsed = None
    /\ systime = FirstRun
    /\ runs = 0
    /\ cache_file \in CacheFiles
    /\ mpc = "stopped"
    /\ stored = EmptyMap
    /\ NoRun

\* main lines 18-23: config::read, cache::setup (cache.rs lines 21-33),
\* cache::read
MainStart ==
    /\ mpc = "stopped"
    /\ runs < MaxRuns
    /\ runs' = runs + 1
    /\ config' \in Configs
    /\ NOW' = systime
    /\ NEXT_TTL' = systime + TimeToLive
    /\ cache' = cache_file
    /\ todo' = DOMAIN config'.discord
    /\ mpc' = "handling"
    /\ UNCHANGED <<systime, cache_file, awaiting, requests, queue, responses, returned, sent,
                   skipped, inserted, stored, last_inserted>>
    /\ UNCHANGED parser

\* main lines 25-27 and 38-47: a turn of the loop over config.discord, whose
\* order is the map's, up to the first .await of discord::handle (discord.rs
\* line 19); a disabled entry is skipped and an unusable one gives
\* Err(MissingConfig) without waiting
HandleDiscord ==
    /\ mpc = "handling"
    /\ awaiting = None
    /\ \E name \in todo :
         /\ todo' = todo \ {name}
         /\ awaiting' = IF config.discord[name].enabled /\ ~missing_config(config.discord[name])
                        THEN Some([call |-> "handle", of |-> name, wait |-> "client",
                                   codes |-> <<>>, acks |-> 0])
                        ELSE None
    /\ UNCHANGED <<systime, runs, cache_file, mpc, config, NOW, NEXT_TTL, cache, requests, queue,
                   responses, returned, sent, skipped, inserted, stored, last_inserted>>
    /\ UNCHANGED parser

\* discord::handle waits for `wait`
InHandle(wait) ==
    /\ mpc = "handling"
    /\ IsSome(awaiting)
    /\ Unwrap(awaiting).call = "handle"
    /\ Unwrap(awaiting).wait = wait

\* discord::handle goes on to its next wait
HandleWaits(next) ==
    /\ awaiting' = Some(next)
    /\ UNCHANGED <<mpc, requests, returned>>

\* main lines 29-41: discord::handle has returned and its outcome is matched
Handled(outcome) ==
    /\ awaiting' = None
    /\ UNCHANGED mpc
    /\ IF outcome.ok
       THEN /\ requests' = Put(requests, "discord", outcome.val)
            /\ returned' = returned \cup Range(outcome.val)
       ELSE UNCHANGED <<requests, returned>>

\* discord.rs lines 19 and 99-105: the client builder returns; when it failed,
\* expect("Error creating client") panics and the process ends before
\* cache::write
ClientBuilt ==
    /\ InHandle("client")
    /\ \E built \in BOOLEAN :
         IF built
         THEN HandleWaits([Unwrap(awaiting) EXCEPT !.wait = "get_current_user"])
         ELSE /\ mpc' = "panicked"
              /\ awaiting' = None
              /\ UNCHANGED <<requests, returned>>
    /\ UNCHANGED <<systime, runs, cache_file, config, NOW, NEXT_TTL, cache, todo, queue,
                   responses, sent, skipped, inserted, stored, last_inserted>>
    /\ UNCHANGED parser

\* discord.rs lines 21-27: get_current_user returns
LoggedIn ==
    /\ InHandle("get_current_user")
    /\ \E ok \in BOOLEAN :
         IF ok
         THEN HandleWaits([Unwrap(awaiting) EXCEPT !.wait = "get_messages"])
         ELSE Handled(Err("Serenity"))
    /\ UNCHANGED <<systime, runs, cache_file, config, NOW, NEXT_TTL, cache, todo, queue,
                   responses, sent, skipped, inserted, stored, last_inserted>>
    /\ UNCHANGED parser

\* discord.rs lines 29-78: get_messages returns and the messages are parsed;
\* with acknowledge, the first create_reaction is waited for
MessagesFetched ==
    /\ InHandle("get_messages")
    /\ \E outcome \in MessagesOutcomes(RequestLists) :
         IF outcome.ok /\ config.discord[Unwrap(awaiting).of].acknowledge /\ Len(outcome.val) > 0
         THEN HandleWaits([Unwrap(awaiting) EXCEPT !.wait = "create_reaction",
                                                   !.codes = outcome.val,
                                                   !.acks = Len(outcome.val)])
         ELSE Handled(outcome)
    /\ UNCHANGED <<systime, runs, cache_file, config, NOW, NEXT_TTL, cache, todo, queue,
                   responses, sent, skipped, inserted, stored, last_inserted>>
    /\ UNCHANGED parser

\* discord.rs lines 78-82 and 85-97: a create_reaction returns, whatever its
\* result; after the last one handle returns Ok(codes)
Acknowledged ==
    /\ InHandle("create_reaction")
    /\ IF Unwrap(awaiting).acks > 1
       THEN HandleWaits([Unwrap(awaiting) EXCEPT !.acks = @ - 1])
       ELSE Handled(Ok(Unwrap(awaiting).codes))
    /\ UNCHANGED <<systime, runs, cache_file, config, NOW, NEXT_TTL, cache, todo, queue,
                   responses, sent, skipped, inserted, stored, last_inserted>>
    /\ UNCHANGED parser

\* main lines 50-57: the dry run answers every request with None
DryRun ==
    /\ mpc = "handling"
    /\ todo = {}
    /\ awaiting = None
    /\ config.dry_run
    /\ responses' = [c \in Range(requests_in_order(requests)) |-> None]
    /\ mpc' = "logging"
    /\ UNCHANGED <<systime, runs, cache_file, config, NOW, NEXT_TTL, cache, todo, awaiting,
                   requests, queue, returned, sent, skipped, inserted, stored, last_inserted>>
    /\ UNCHANGED parser

\* main lines 58-61: the client is made and the loops over requests begin
OpenClient ==
    /\ mpc = "handling"
    /\ todo = {}
    /\ awaiting = None
    /\ ~config.dry_run
    /\ queue' = requests_in_order(requests)
    /\ mpc' = "submitting"
    /\ UNCHANGED <<systime, runs, cache_file, config, NOW, NEXT_TTL, cache, todo, awaiting,
                   requests, responses, returned, sent, skipped, inserted, stored, last_inserted>>
    /\ UNCHANGED parser

\* main lines 62-68: a request of the loop up to the .await of insert_code
Submit ==
    /\ mpc = "submitting"
    /\ awaiting = None
    /\ queue # <<>>
    /\ queue' = Tail(queue)
    /\ \E code \in {Head(queue)} :
         IF has(cache, code, NOW)
         THEN /\ skipped' = skipped \cup {code}
              /\ UNCHANGED <<awaiting, sent>>
         ELSE /\ sent' = sent \cup {code}
              /\ awaiting' = Some([call |-> "insert_code", of |-> code])
              /\ UNCHANGED skipped
    /\ UNCHANGED <<systime, runs, cache_file, mpc, config, NOW, NEXT_TTL, cache, todo, requests,
                   responses, returned, inserted, stored, last_inserted>>
    /\ UNCHANGED parser

\* main lines 68-77: insert_code returns and its answer is matched
Answered ==
    /\ mpc = "submitting"
    /\ IsSome(awaiting)
    /\ Unwrap(awaiting).call = "insert_code"
    /\ awaiting' = None
    /\ \E code \in {Unwrap(awaiting).of} :
         \E outcome \in InsertCodeOutcomes :
           IF outcome.ok
           THEN /\ responses' = Put(responses, code, outcome.val)
                /\ cache' \in insert(cache, code, NEXT_TTL)
                /\ inserted' = inserted \cup {code}
                /\ last_inserted' = Some(code)
           ELSE /\ responses' = Put(responses, code, None)
                /\ UNCHANGED <<cache, inserted, last_inserted>>
    /\ UNCHANGED <<systime, runs, cache_file, mpc, config, NOW, NEXT_TTL, todo, requests, queue,
                   returned, sent, skipped, stored>>
    /\ UNCHANGED parser

\* main lines 82-98: the responses are logged, the cache is busted and
\* written
Finish ==
    /\ \/ mpc = "submitting" /\ queue = <<>>
       \/ mpc = "logging"
    /\ awaiting = None
    /\ cache' = bust(cache, NOW)
    /\ cache_file' = cache'
    /\ stored' = [c \in DOMAIN stored \cup inserted |->
                     IF c \in inserted THEN NEXT_TTL ELSE stored[c]]
    /\ mpc' = "exited"
    /\ UNCHANGED <<systime, runs, config, NOW, NEXT_TTL, todo, awaiting, requests, queue,
                   responses, returned, sent, skipped, inserted, last_inserted>>
    /\ UNCHANGED parser

\* the process is gone and the time until the next run passes
Wait ==
    /\ mpc \in {"exited", "panicked"}
    /\ \E gap \in Gaps : systime' = systime + gap
    /\ mpc' = "stopped"
    /\ config' = NoConfig
    /\ NOW' = 0
    /\ NEXT_TTL' = 0
    /\ cache' = EmptyCache
    /\ todo' = {}
    /\ awaiting' = None
    /\ requests' = EmptyMap
    /\ queue' = <<>>
    /\ responses' = EmptyMap
    /\ returned' = {}
    /\ sent' = {}
    /\ skipped' = {}
    /\ inserted' = {}
    /\ last_inserted' = None
    /\ UNCHANGED <<runs, cache_file, stored>>
    /\ UNCHANGED parser

MainNext ==
    \/ MainStart
    \/ HandleDiscord
    \/ ClientBuilt
    \/ LoggedIn
    \/ MessagesFetched
    \/ Acknowledged
    \/ DryRun
    \/ OpenClient
    \/ Submit
    \/ Answered
    \/ Finish
    \/ Wait

MainSpec == MainInit /\ [][MainNext]_vars

-----------------------------------------------------------------------------
(* Properties                                                              *)

\* the [year, month, day] of an instant
DateOf(t) == CivilFromDays(t \div SecondsPerDay)

\* UTC midnight of the date (yr, mo, dy), in seconds since the epoch
Midnight(yr, mo, dy) == DaysFromCivil(yr, mo, dy) * SecondsPerDay

ValidDate(yr, mo, dy) == mo \in 1..12 /\ dy >= 1 /\ dy <= days_in_month(yr, mo)

\* the texts of the inputs that hold an am/pm marker
MarkerSuffixes == {" 6AM PST.", " PM"}

\* texts that hold "next week" in some letter case
RelativeTexts ==
    { "next week", "Next Week", "Expires NEXT WEEK", "next week 1/15/2030 6AM PST.",
      "Jan 5 or next Week", "Expires Next Week" }

\* C1: with the safety net active, a returned instant is never above
\* next_week() + 32 days, where next_week() is taken at a clock reading of
\* the call: a resolved instant above that bound is replaced by exactly
\* next_week(), one at or below it is returned unchanged.
C1_SafetyNetBounds ==
    (pc = "done" /\ safety /\ IsSome(result)) =>
        /\ \E t \in t0..now : nextweek = (t + 7) * SecondsPerDay
        /\ Unwrap(result) <= nextweek + 2764800
        /\ Unwrap(raw) > nextweek + 2764800 => result = Some(nextweek)
        /\ Unwrap(raw) <= nextweek + 2764800 => result = raw

\* C1: a date of the text, resolved above the bound, has been replaced
C1_Witness ==
    /\ pc = "done"
    /\ safety
    /\ ts = "Expires Mar 4, 2030"
    /\ raw = Some(Midnight(2030, 3, 4))
    /\ result = Some(nextweek)
    /\ Unwrap(raw) > nextweek + 2764800

\* C2: a non-empty text holding "next week" in any letter case resolves to
\* UTC midnight of the date parse was entered on plus 7 days, whatever
\* surrounds the phrase and whatever the safety_net flag.
C2_NextWeek ==
    (pc = "done" /\ ts \in RelativeTexts) => result = Some((t0 + 7) * SecondsPerDay)

\* C2: the phrase in upper case, among digits and an am/pm marker, with the
\* safety net active and the clock advanced during the call
C2_Witness ==
    /\ pc = "done"
    /\ ts = "next week 1/15/2030 6AM PST."
    /\ safety
    /\ now > t0
    /\ result = Some((t0 + 7) * SecondsPerDay)

\* C3: when the text holds an am/pm marker and reads "A/B/YY" or "A-B" with
\* A and B both in 1..12, the resolved date has month A and day B.
C3_FirstFieldIsMonth ==
    pc = "done" =>
        \A a \in Fields \cap (1..12), b \in Fields \cap (1..12), x \in MarkerSuffixes :
            (\/ ts = BareText(a, "-", b, x)
             \/ \E yr \in ShortYears : ts = TrailingYearText(a, b, yr, x))
            => /\ IsSome(raw)
               /\ DateOf(Unwrap(raw)).month = a
               /\ DateOf(Unwrap(raw)).day = b

\* C4: a text "YYYY-A-B" resolves to the same instant with and without an
\* am/pm marker (the clock read once, at the reading the call began with).
C4_MarkerIgnoredAfterYear ==
    (pc = "done" /\ now = t0) =>
        \A yr \in LongYears, a \in Fields, b \in Fields, x \in MarkerSuffixes :
            ts = YearFirstText(yr, a, b, x)
            => result = parse(YearFirstText(yr, a, b, ""), safety, t0)

\* C5: a text "A/B/YYYY" without marker, YYYY within one year of the current
\* year and (YYYY, A, B) a valid date, is resolved by the month/day-first
\* shape to the date (YYYY, A, B).
C5_TrailingYearKept ==
    pc = "done" =>
        \A a \in Fields, b \in Fields, yr \in LongYears :
            (/\ ts = TrailingYearText(a, b, yr, "")
             /\ yr - this_year \in -1..1
             /\ ValidDate(yr, a, b))
            => /\ IsSome(cand)
               /\ Unwrap(cand).shape = "mmddyyyy"
               /\ raw = Some(Midnight(yr, a, b))

\* C6: with the safety net disabled, "<month-name> <day>, <year>" for every
\* recognized month name, day in 1..28 and year within one year of the
\* current year (as normalize_year reads it) resolves to UTC midnight of
\* exactly that date.
C6_RoundTrip ==
    (pc = "done" /\ ~safety) =>
        \A n \in MonthNames :
            (Len(ts) > Len(n[1]) /\ SubSeq(ts, 1, Len(n[1]) + 1) = n[1] \o " ") =>
                \A day \in RoundTripDays, yr \in RoundTripYears :
                    (ts = RoundTripText(n[1], day, yr) /\ yr - this_year \in -1..1)
                    => result = Some(Midnight(yr, n[2], day))

\* C6: a full month name, the last day covered, the year before the current one
C6_Witness ==
    /\ pc = "done"
    /\ ~safety
    /\ ts = RoundTripText("September", 28, 2025)
    /\ this_year = 2026
    /\ result = Some(Midnight(2025, 9, 28))

\* the year handle_captures captured, None when the text carries none
CapturedYear ==
    IF IsSome(cand) /\ IsSome(Unwrap(cand).mtch[Unwrap(cand).year_index])
    THEN Some(ParseInt(Unwrap(Unwrap(cand).mtch[Unwrap(cand).year_index])))
    ELSE None

\* C7: a captured year below 1000 is increased by 2000, then a year more
\* than one year behind the current year (as normalize_year reads it) is
\* replaced by the current year; the date parse resolves has that year,
\* which is no earlier than the current year minus 1.
C7_YearNormalized ==
    (pc = "done" /\ IsSome(cand)) =>
        /\ IsSome(CapturedYear) =>
             LET c == Unwrap(CapturedYear)
                 c2 == IF c < 1000 THEN c + 2000 ELSE c
             IN y = IF c2 < this_year - 1 THEN this_year ELSE c2
        /\ IsSome(raw) => DateOf(Unwrap(raw)).year = y /\ y >= this_year - 1
        /\ IsSome(result) => DateOf(Unwrap(result)).year >= this_year - 1

\* C7: the two-digit year 27 has become 2027
C7_Witness ==
    /\ pc = "done"
    /\ ts = "Expires 1/15/27 6AM PST."
    /\ CapturedYear = Some(27)
    /\ y = 2027
    /\ raw = Some(Midnight(2027, 1, 15))

\* C8: when the matched text carries no year, the resolved date has the
\* current year, or the next year when its month is January and the
\* current month is December (the clock read once, at the reading the call
\* began with).
C8_JanuaryInDecember ==
    (pc = "done" /\ now = t0 /\ IsSome(cand) /\ ~IsSome(CapturedYear) /\ IsSome(raw)) =>
        DateOf(Unwrap(raw)).year =
            IF DateOf(Unwrap(raw)).month = 1 /\ MonthOf(t0) = 12
            THEN YearOf(t0) + 1 ELSE YearOf(t0)

\* C9: when the message has an expiry line that TimeParser::parse does not
\* resolve, expires_at is the message's timestamp plus 7 days, in seconds.
C9_FallbackIsAWeek ==
    (/\ pc = "returned"
     /\ IsSome(parsed)
     /\ Unwrap(parsed).ok
     /\ IsSome(expiry_line(message))
     /\ ~IsSome(result))
    => Unwrap(parsed).val.expires_at = message_ts + 7 * SecondsPerDay

\* C10: what a parse call returns is what the text resolves to with every
\* clock-dependent stage reading the instant the call began at.
C10_SingleInstant ==
    pc = "done" => result = parse(ts, safety, t0)

\* the first shape, in the order compact am/pm, year-first, month/day-first,
\* named-month, whose pattern matches the lower-cased text; "none" if none
FirstShapeInOrder(n) ==
    IF is_american(n) /\ IsSome(captures(regex_american_edge_case, n)) THEN "american_edge_case"
    ELSE IF IsSome(captures(regex_yyyymmdd, n)) THEN "yyyymmdd"
    ELSE IF IsSome(captures(regex_mmddyyyy, n)) THEN "mmddyyyy"
    ELSE IF IsSome(captures(regex_engdate, n)) THEN "engdate"
    ELSE "none"

\* the fields of the frame, after the late swap, are no calendar date
FieldsInvalid ==
    IF m > 12 /\ d <= 12 THEN ~ValidDate(y, d, m) ELSE ~ValidDate(y, m, d)

\* C11: for a text without the relative phrase, the shape that decides is
\* the first one in the fixed order that matches, and when its fields form
\* no valid calendar date parse returns unresolved, no later shape tried.
C11_FirstShapeDecides ==
    (pc = "done" /\ Len(ts) > 0 /\ ~contains(to_lowercase(ts), "next week")) =>
        /\ (IF IsSome(cand) THEN Unwrap(cand).shape ELSE "none")
             = FirstShapeInOrder(to_lowercase(ts))
        /\ (IsSome(cand) /\ FieldsInvalid) => (raw = None /\ result = None)

\* C11: the year-first shape matched "32/32" and parse is unresolved, though
\* the named-month shape alone resolves the text to 2027-01-05
C11_Witness ==
    /\ pc = "done"
    /\ ts = "32/32 Jan 5, 2027"
    /\ IsSome(cand)
    /\ Unwrap(cand).shape = "yyyymmdd"
    /\ m = 32
    /\ d = 32
    /\ result = None
    /\ handle_captures(Candidate("engdate", captures(regex_engdate, to_lowercase(ts)), 3, 1, 2, TRUE),
                       FALSE, t0) = Some(Midnight(2027, 1, 5))

\* a run of main is between cache::read and cache::write
Running == mpc \in {"handling", "submitting", "logging"}

\* C12: a code that an earlier run submitted and inserted, and that the cache
\* file still holds, is reported by Cache::has and not submitted again by a
\* run that starts before the time-to-live of the entry, and is not reported
\* by Cache::has in a run that starts after it.
C12_CachedUntilTimeToLive ==
    \A c \in DOMAIN stored :
        (Running /\ c \in DOMAIN cache_file.items /\ cache_file.items[c] = stored[c]) =>
            /\ NOW < stored[c] => (has(cache_file, c, NOW) /\ c \notin sent)
            /\ NOW > stored[c] => ~has(cache_file, c, NOW)

\* C13: from a cache file of at most CACHE_LIMIT entries, the cache of main
\* and the cache file hold at most CACHE_LIMIT entries after every
\* Cache::insert and Cache::bust, the code of the last insert is in the
\* cache, and one more insert of any code or one more bust keeps both.
C13_CacheWithinLimit ==
    /\ cache_len(cache) <= CACHE_LIMIT
    /\ cache_len(cache_file) <= CACHE_LIMIT
    /\ IsSome(last_inserted) => Unwrap(last_inserted) \in DOMAIN cache.items
    /\ \A code \in Codes : \A c \in insert(cache, code, NEXT_TTL) :
           cache_len(c) <= CACHE_LIMIT /\ code \in DOMAIN c.items
    /\ cache_len(bust(cache, NOW)) <= CACHE_LIMIT

\* a code the full cache file did not hold was inserted: an entry was removed
C13_Witness ==
    /\ mpc = "submitting"
    /\ cache_len(cache_file) = CACHE_LIMIT
    /\ IsSome(last_inserted)
    /\ Unwrap(last_inserted) \notin DOMAIN cache_file.items
    /\ Unwrap(last_inserted) \in DOMAIN cache.items
    /\ cache_len(cache) = CACHE_LIMIT

\* C14: when a run that is not a dry run has exited, every code a successful
\* discord::handle of the run returned was passed to insert_code or skipped
\* because Cache::has reported it.
C14_NoRequestDropped ==
    (mpc = "exited" /\ ~config.dry_run) => returned \subseteq (sent \cup skipped)

====
